---- MODULE Spec2Model ----
(***************************************************************************)
(* Model of server.js: the /api/vehicles/search handler with its           *)
(* time-bounded lookaside cache (cache, getCacheKey, getFromCache,         *)
(* setCache).  Strings that enter the cache key are sequences of           *)
(* one-character strings so that JSON.stringify is modelled by what it     *)
(* writes.  The handler is async: the code between two awaits runs as one  *)
(* atomic step, and requests interleave at the awaits.                     *)
(***************************************************************************)
EXTENDS Integers, Sequences, FiniteSets, TLC

VARIABLES
    cache,      \* the Map of line 37: cache key -> [data, timestamp]
    now,        \* Date.now(), in ms since the process started
    apiKey,     \* !!process.env.MARKETCHECK_API_KEY
    req,        \* per request slot: the run of the handler in it
    last,       \* the run that responded in the latest step (NoResponse: none did)
    prev,       \* in SpecSeq: the run that responded last
    ticks       \* clock advances so far

vars == <<cache, now, apiKey, req, last, prev, ticks>>

----------------------------------------------------------------------------
(* Bounds *)

MaxTicks == 2       \* clock advances in one behaviour
MaxEntries == 1     \* entries in the cache where the keys are compared

(* Program constants *)

CACHE_DURATION == 30 * 60 * 1000
DefaultRadius == 50
DefaultRows == 10

\* the slots for requests handled concurrently.  With a third slot TLC
\* finds the properties checked under Spec to hold as well (479,508 states).
Reqs == {1, 2}

----------------------------------------------------------------------------
(* JavaScript values that occur in req.query and after destructuring *)

Undefined == [t |-> "undefined", s |-> <<>>, n |-> 0]
JStr(s) == [t |-> "string", s |-> s, n |-> 0]
JNum(n) == [t |-> "number", s |-> <<>>, n |-> n]

\* variant: a test for undefined instead of !v
FalsyUndefinedOnly(v) == v.t = "undefined"

\* !v for the values above
Falsy(v) ==
    \/ v.t = "undefined"
    \/ v.t = "string" /\ v.s = <<>>
    \/ v.t = "number" /\ v.n = 0

\* a destructuring default applies to undefined only
OrDefault(v, d) == IF v.t = "undefined" THEN JNum(d) ELSE v

Digit(d) == <<"0", "1", "2", "3", "4", "5", "6", "7", "8", "9">>[d + 1]

RECURSIVE NumToStr(_)
NumToStr(n) == IF n < 10 THEN <<Digit(n)>> ELSE NumToStr(n \div 10) \o <<Digit(n % 10)>>

DigitVal(c) == CHOOSE d \in 0 .. 9 : Digit(d) = c

RECURSIVE StrToNum(_)
StrToNum(s) ==
    IF Len(s) = 0 THEN 0
    ELSE 10 * StrToNum(SubSeq(s, 1, Len(s) - 1)) + DigitVal(s[Len(s)])

\* String(v), as URLSearchParams applies it
ToStr(v) == IF v.t = "number" THEN NumToStr(v.n) ELSE v.s

\* Number(v) for the digit strings and numbers of the model
ToNum(v) == IF v.t = "number" THEN v.n ELSE StrToNum(v.s)

----------------------------------------------------------------------------
(* JSON.stringify of the params object *)

\* variant: a string put between quotes as it is
EscapeNone(s) == s

RECURSIVE Escape(_)
Escape(s) ==
    IF Len(s) = 0 THEN <<>>
    ELSE (IF Head(s) \in {"\"", "\\"} THEN <<"\\", Head(s)>> ELSE <<Head(s)>>)
         \o Escape(Tail(s))

Quote(s) == <<"\"">> \o Escape(s) \o <<"\"">>

StringifyValue(v) == IF v.t = "number" THEN NumToStr(v.n) ELSE Quote(v.s)

RECURSIVE StringifyProps(_)
StringifyProps(props) ==
    IF Len(props) = 0 THEN <<>>
    ELSE LET p == Head(props)
             rest == StringifyProps(Tail(props))
         IN  IF p[2].t = "undefined" THEN rest
             ELSE Quote(p[1]) \o <<":">> \o StringifyValue(p[2])
                  \o (IF Len(rest) = 0 THEN <<>> ELSE <<",">> \o rest)

\* props: the object's properties in insertion order, as <<name, value>>
JSONStringify(props) == <<"{">> \o StringifyProps(props) \o <<"}">>

getCacheKey(endpoint, params) == endpoint \o <<"-">> \o JSONStringify(params)

----------------------------------------------------------------------------
(* The cache: a Map from key to [data, timestamp] *)

\* variant: <= in place of < at line 46
IsFreshInclusive(entry, t) == t - entry.timestamp <= CACHE_DURATION

\* line 46
IsFresh(entry, t) == t - entry.timestamp < CACHE_DURATION

\* what getFromCache returns: the entry's data, or NoData for null
NoData == <<>>

getFromCacheResult(c, key, t) ==
    IF key \in DOMAIN c /\ IsFresh(c[key], t) THEN c[key].data ELSE NoData

\* variant: getFromCache without the cache.delete of line 49
getFromCacheMapKeep(c, key, t) == c

\* variant: a getFromCache that sets the timestamp of the entry it returns
getFromCacheMapTouch(c, key, t) ==
    IF key \in DOMAIN c /\ IsFresh(c[key], t)
    THEN [c EXCEPT ![key].timestamp = t]
    ELSE [k \in DOMAIN c \ {key} |-> c[k]]

\* the Map after getFromCache: untouched on a hit, key deleted otherwise
getFromCacheMap(c, key, t) ==
    IF key \in DOMAIN c /\ IsFresh(c[key], t) THEN c
    ELSE [k \in DOMAIN c \ {key} |-> c[k]]

\* variant: a setCache that keeps the entry already there
setCacheIfAbsent(c, key, data, t) ==
    IF key \in DOMAIN c THEN c
    ELSE [k \in DOMAIN c \cup {key} |->
            IF k = key THEN [data |-> data, timestamp |-> t] ELSE c[k]]

\* the Map after setCache
setCache(c, key, data, t) ==
    [k \in DOMAIN c \cup {key} |->
        IF k = key THEN [data |-> data, timestamp |-> t] ELSE c[k]]

----------------------------------------------------------------------------
(* Requests *)

strT == <<"T">>
strC == <<"C">>
str2 == <<"2">>
str9 == <<"9">>
str50 == <<"5", "0">>
str1 == <<"1">>

Query(make, model, year, zip, radius, rows) ==
    [make |-> make, model |-> model, year |-> year, zip |-> zip,
     radius |-> radius, rows |-> rows]

NoQuery == Query(Undefined, Undefined, Undefined, Undefined, Undefined, Undefined)

Required == {"make", "model", "year", "zip"}

GoodValue == [make |-> JStr(strT), model |-> JStr(strC), year |-> JStr(str2),
              zip |-> JStr(str9)]

\* req.query with the required parameters of absent missing and those of
\* empty given as the empty string
QueryWith(absent, empty, radius, rows) ==
    LET v(f) == IF f \in absent THEN Undefined
                ELSE IF f \in empty THEN JStr(<<>>) ELSE GoodValue[f]
    IN  Query(v("make"), v("model"), v("year"), v("zip"), radius, rows)

\* one or more of the required parameters absent or empty
InvalidQueries ==
    { QueryWith(absent, {}, Undefined, Undefined) :
        absent \in { {f} : f \in Required } \cup {Required} }
    \cup { QueryWith({}, {"zip"}, JStr(str50), Undefined),
           QueryWith({"make"}, {"year"}, Undefined, JStr(str1)) }

\* req.query of the requests handled concurrently
Queries ==
    { QueryWith({}, {}, ra, Undefined) : ra \in {Undefined, JStr(str50)} }
    \cup InvalidQueries

\* req.query of the requests that arrive one after the other
SeqQueries ==
    { QueryWith({}, {}, ra, ro) :
        ra \in {Undefined, JStr(str50)}, ro \in {Undefined, JStr(str1)} }
    \cup { QueryWith({"zip"}, {}, Undefined, Undefined),
           QueryWith({}, {"make"}, JStr(str50), Undefined) }

\* line 71: the destructuring with its defaults
Destructure(q) ==
    [q EXCEPT !.radius = OrDefault(q.radius, DefaultRadius),
              !.rows = OrDefault(q.rows, DefaultRows)]

\* line 73
MissingRequired(d) == Falsy(d.make) \/ Falsy(d.model) \/ Falsy(d.year) \/ Falsy(d.zip)

sSearch == <<"s", "e", "a", "r", "c", "h">>
sMake == <<"m", "a", "k", "e">>
sModel == <<"m", "o", "d", "e", "l">>
sYear == <<"y", "e", "a", "r">>
sZip == <<"z", "i", "p">>
sRadius == <<"r", "a", "d", "i", "u", "s">>

\* The strings the keys are compared on: those of one or two characters
\* over a letter, the quote and the backslash, and one that holds the text
\* JSON.stringify puts between the make and the model.
KeyAlphabet == {"a", "\"", "\\"}
KeyStrings ==
    { <<c>> : c \in KeyAlphabet } \cup { <<c, e>> : c, e \in KeyAlphabet }
strA == <<"a">>
KeySeparator == <<"\"", ",">> \o <<"\"">> \o sModel \o <<"\"", ":", "\"">>
KeyTwinMake == Query(JStr(strA \o KeySeparator \o strA), JStr(strA),
                     JStr(str2), JStr(str9), Undefined, Undefined)
KeyTwinModel == Query(JStr(strA), JStr(strA \o KeySeparator \o strA),
                      JStr(str2), JStr(str9), Undefined, Undefined)

\* req.query of the requests whose keys are compared
KeyQueries ==
    { Query(JStr(m), JStr(strA), JStr(str2), JStr(str9), Undefined, Undefined) :
        m \in KeyStrings }
    \cup { Query(JStr(strA), JStr(m), JStr(str2), JStr(str9), Undefined, Undefined) :
        m \in KeyStrings }
    \cup { Query(JStr(strA), JStr(strA), JStr(str2), JStr(str9), JStr(ra), Undefined) :
        ra \in {str50, <<"5">>} }
    \cup { Query(JStr(strA), JStr(strA), JStr(str9), JStr(str2), Undefined, Undefined),
           KeyTwinMake, KeyTwinModel }

sRows == <<"r", "o", "w", "s">>

\* variant: rows among the params of line 79
CacheKeyOfWithRows(d) ==
    getCacheKey(sSearch,
        << <<sMake, d.make>>, <<sModel, d.model>>, <<sYear, d.year>>,
           <<sZip, d.zip>>, <<sRadius, d.radius>>, <<sRows, d.rows>> >>)

\* line 79
CacheKeyOf(d) ==
    getCacheKey(sSearch,
        << <<sMake, d.make>>, <<sModel, d.model>>, <<sYear, d.year>>,
           <<sZip, d.zip>>, <<sRadius, d.radius>> >>)

\* the keys of the requests the model sends, computed once
cacheKeys ==
    [d \in {Destructure(q) : q \in Queries \cup SeqQueries \cup KeyQueries} |->
        CacheKeyOf(d)]

\* lines 96-105: the query string of the upstream request (without the credential)
UpstreamParams(d) ==
    [make |-> ToStr(d.make), model |-> ToStr(d.model), year |-> ToStr(d.year),
     zip |-> ToStr(d.zip), radius |-> ToStr(d.radius), rows |-> ToStr(d.rows),
     start |-> <<"0">>]

----------------------------------------------------------------------------
(* The upstream service, as fetch shows it to the handler *)

UpstreamStatuses == {200, 404}

\* response.ok
Ok(status) == status >= 200 /\ status <= 299

ErrorTexts == {"Not Found", "Quota exceeded"}

Inventory == {<<>>, <<1>>, <<1, 2>>}

\* the JSON objects the upstream may answer a request for at most n rows with
UpstreamData(n) ==
    { [listings |-> l, num_found |-> Len(l)] : l \in {i \in Inventory : Len(i) <= n} }
    \cup { [num_found |-> 0] }

\* variant: no test at line 129
NoListingsNever(data) == FALSE

\* variant: line 129 without the !data.listings test
NoListingsZeroOnly(data) == "listings" \in DOMAIN data /\ Len(data.listings) = 0

\* line 129
NoListings(data) == "listings" \notin DOMAIN data \/ Len(data.listings) = 0

\* variant: line 84 without cached: true
WithCachedDropped(data) == data

\* line 84: { ...cachedData, cached: true }
WithCached(data) ==
    [f \in DOMAIN data \cup {"cached"} |-> IF f = "cached" THEN TRUE ELSE data[f]]

----------------------------------------------------------------------------
(* A run of the handler: its position and its locals.  reads, deletes,     *)
(* writes, calls count the cache.get, cache.delete, cache.set and fetch    *)
(* calls the run has made; storedAt is the timestamp its setCache wrote.   *)
(* upstream, errorText and data are response.status, the text of line 117  *)
(* and the object of line 127, once the run has them; replaced records     *)
(* whether its cache.set took the place of an entry.                       *)

IdleSlot ==
    [pc |-> "idle", query |-> NoQuery, cacheKey |-> <<>>, upstream |-> 0,
     errorText |-> "", data |-> NoData, resStatus |-> 0, resBody |-> <<>>, outcome |-> "none",
     reads |-> 0, deletes |-> 0, writes |-> 0, calls |-> 0, storedAt |-> 0,
     replaced |-> FALSE]

NoResponse == IdleSlot

InFlight(s) == s.pc \in {"fetch", "text", "json"}

\* res.status(status).json(body)
Respond(s, status, body, outcome) ==
    [s EXCEPT !.pc = "done", !.resStatus = status, !.resBody = body,
              !.outcome = outcome]

\* variant: the message of line 75 without the list of parameters
ValidationResponseBare(s) ==
    Respond(s, 400, [error |-> "Missing required parameters"], "validation")

\* lines 73-77
ValidationResponse(s) ==
    Respond(s, 400,
            [error |-> "Missing required parameters: make, model, year, zip"],
            "validation")

\* lines 82-85
HitResponse(s, cachedData) == Respond(s, 200, WithCached(cachedData), "hit")

\* variant: line 88 without status(500)
ConfigResponse200(s) ==
    Respond(s, 200,
            [error |-> "Marketcheck API key not configured",
             message |-> "Please add MARKETCHECK_API_KEY to your .env file"],
            "config")

\* lines 87-92
ConfigResponse(s) ==
    Respond(s, 500,
            [error |-> "Marketcheck API key not configured",
             message |-> "Please add MARKETCHECK_API_KEY to your .env file"],
            "config")

\* lines 107-114: the request is sent and the handler suspends
IssueFetch(s) == [s EXCEPT !.pc = "fetch", !.calls = @ + 1]

\* variant: line 144 left out of the catch block's body
CatchResponseSilent(s, message) ==
    Respond(s, 500, [error |-> "Internal server error"], "unexpected")

\* lines 140-146
CatchResponse(s, message) ==
    Respond(s, 500, [error |-> "Internal server error", message |-> message],
            "unexpected")

\* variant: line 120 with status(500) in place of response.status
UpstreamErrorResponse500(s, errorText) ==
    Respond([s EXCEPT !.errorText = errorText], 500,
            [error |-> "Marketcheck API request failed", status |-> s.upstream,
             details |-> errorText],
            "upstream")

\* lines 116-125
UpstreamErrorResponse(s, errorText) ==
    Respond([s EXCEPT !.errorText = errorText], s.upstream,
            [error |-> "Marketcheck API request failed", status |-> s.upstream,
             details |-> errorText],
            "upstream")

\* variant: res.json(data) in place of the literal of lines 130-134
EmptyResponseAsIs(s, data) ==
    Respond([s EXCEPT !.data = data], 200, data, "empty")

\* lines 129-135
EmptyResponse(s, data) ==
    Respond([s EXCEPT !.data = data], 200,
            [listings |-> <<>>, num_found |-> 0,
             message |-> "No listings found for this vehicle"],
            "empty")

\* lines 137-138
StoredResponse(s, data, t, had) ==
    Respond([s EXCEPT !.data = data, !.writes = @ + 1, !.storedAt = t,
                      !.replaced = had],
            200, data, "stored")

----------------------------------------------------------------------------
(* The handler, one action per stretch of code between two awaits.  A run  *)
(* that responds leaves its record in last and frees its slot.             *)

\* run r answers with record s
Answer(r, s) ==
    /\ last' = s
    /\ req' = [req EXCEPT ![r] = IdleSlot]

\* lines 69-107: from the request's arrival to the first await or response
Search(r, q) ==
    /\ req[r].pc = "idle"
    /\ LET d == Destructure(q)
           s0 == [IdleSlot EXCEPT !.query = q]
       IN  IF MissingRequired(d)
           THEN /\ Answer(r, ValidationResponse(s0))
                /\ cache' = cache
           ELSE LET key == cacheKeys[d]
                    cachedData == getFromCacheResult(cache, key, now)
                    s1 == [s0 EXCEPT !.cacheKey = key, !.reads = 1,
                               !.deletes = IF cachedData = NoData THEN 1 ELSE 0]
                IN  /\ cache' = getFromCacheMap(cache, key, now)
                    /\ IF cachedData # NoData
                       THEN Answer(r, HitResponse(s1, cachedData))
                       ELSE IF ~apiKey
                       THEN Answer(r, ConfigResponse(s1))
                       ELSE /\ req' = [req EXCEPT ![r] = IssueFetch(s1)]
                            /\ last' = NoResponse
    /\ UNCHANGED <<now, apiKey, ticks>>

\* variant: a rejected fetch sent again
FetchRejectedRetry(r) ==
    /\ req[r].pc = "fetch"
    /\ req' = [req EXCEPT ![r] = IssueFetch(@)]
    /\ last' = NoResponse
    /\ UNCHANGED <<cache, now, apiKey, ticks>>

\* line 107: fetch rejects (network failure): the catch block answers
FetchRejected(r) ==
    /\ req[r].pc = "fetch"
    /\ Answer(r, CatchResponse(req[r], "fetch failed"))
    /\ UNCHANGED <<cache, now, apiKey, ticks>>

\* lines 107-117, 127: fetch resolves; the handler awaits the body
FetchResolved(r, status) ==
    /\ req[r].pc = "fetch"
    /\ req' = [req EXCEPT ![r] = [@ EXCEPT !.upstream = status,
                                     !.pc = IF Ok(status) THEN "json" ELSE "text"]]
    /\ last' = NoResponse
    /\ UNCHANGED <<cache, now, apiKey, ticks>>

\* lines 117-125: response.text() resolves
TextResolved(r, errorText) ==
    /\ req[r].pc = "text"
    /\ Answer(r, UpstreamErrorResponse(req[r], errorText))
    /\ UNCHANGED <<cache, now, apiKey, ticks>>

\* line 117: response.text() rejects: the catch block answers
TextRejected(r) ==
    /\ req[r].pc = "text"
    /\ Answer(r, CatchResponse(req[r], "terminated"))
    /\ UNCHANGED <<cache, now, apiKey, ticks>>

JsonFailures ==
    {"Unexpected token < in JSON at position 0",
     "Cannot read properties of null (reading 'listings')"}

\* lines 127-129: response.json() rejects, or resolves with null
JsonFailed(r, message) ==
    /\ req[r].pc = "json"
    /\ Answer(r, CatchResponse(req[r], message))
    /\ UNCHANGED <<cache, now, apiKey, ticks>>

\* lines 127-138: response.json() resolves with an object
JsonResolved(r, data) ==
    /\ req[r].pc = "json"
    /\ data \in UpstreamData(ToNum(Destructure(req[r].query).rows))
    /\ IF NoListings(data)
       THEN /\ Answer(r, EmptyResponse(req[r], data))
            /\ cache' = cache
       ELSE /\ cache' = setCache(cache, req[r].cacheKey, data, now)
            /\ Answer(r, StoredResponse(req[r], data, now, req[r].cacheKey \in DOMAIN cache))
    /\ UNCHANGED <<now, apiKey, ticks>>

TickSteps == {1, CACHE_DURATION - 1}

\* the clock advances
Tick(step) ==
    /\ ticks < MaxTicks
    /\ now' = now + step
    /\ ticks' = ticks + 1
    /\ last' = NoResponse
    /\ UNCHANGED <<cache, apiKey, req>>

Init ==
    /\ cache = <<>>
    /\ now = 0
    /\ ticks = 0
    /\ apiKey \in BOOLEAN
    /\ req = [r \in Reqs |-> IdleSlot]
    /\ last = NoResponse
    /\ prev = NoResponse

\* requests handled concurrently, in the slots of Reqs
Next ==
    \/ \E r \in Reqs, q \in Queries : Search(r, q) /\ UNCHANGED prev
    \/ \E r \in Reqs : FetchRejected(r) /\ UNCHANGED prev
    \/ \E r \in Reqs, status \in UpstreamStatuses :
            FetchResolved(r, status) /\ UNCHANGED prev
    \/ \E r \in Reqs, errorText \in ErrorTexts :
            TextResolved(r, errorText) /\ UNCHANGED prev
    \/ \E r \in Reqs : TextRejected(r) /\ UNCHANGED prev
    \/ \E r \in Reqs, message \in JsonFailures : JsonFailed(r, message) /\ UNCHANGED prev
    \/ \E r \in Reqs, data \in UpstreamData(DefaultRows) :
            JsonResolved(r, data) /\ UNCHANGED prev
    \/ \E step \in TickSteps : Tick(step) /\ UNCHANGED prev

Spec == Init /\ [][Next]_vars

\* prev keeps the latest response
Track == prev' = IF last.pc = "done" THEN last ELSE prev

\* requests arriving one after the other, each after the response to the
\* one before
SeqNext ==
    \/ \E q \in SeqQueries : Search(1, q) /\ Track
    \/ FetchRejected(1) /\ Track
    \/ \E status \in UpstreamStatuses : FetchResolved(1, status) /\ Track
    \/ \E errorText \in ErrorTexts : TextResolved(1, errorText) /\ Track
    \/ TextRejected(1) /\ Track
    \/ \E message \in JsonFailures : JsonFailed(1, message) /\ Track
    \/ \E data \in UpstreamData(DefaultRows) : JsonResolved(1, data) /\ Track
    \/ \E step \in TickSteps : Tick(step) /\ Track

SpecSeq == Init /\ [][SeqNext]_vars

\* requests one after the other for the descriptors of KeyQueries, the
\* upstream answering 200, while the cache has room for a new entry
KeyNext ==
    \/ \E q \in KeyQueries : Search(1, q) /\ UNCHANGED prev
    \/ FetchResolved(1, 200) /\ UNCHANGED prev
    \/ \E message \in JsonFailures : JsonFailed(1, message) /\ UNCHANGED prev
    \/ \E data \in UpstreamData(1) :
            /\ Cardinality(DOMAIN cache) < MaxEntries
            /\ JsonResolved(1, data) /\ UNCHANGED prev

SpecKey == Init /\ [][KeyNext]_vars

\* the promise run r awaits settles: fetch, response.text() or
\* response.json() resolves or rejects
Settle(r) ==
    \/ FetchRejected(r)
    \/ \E status \in UpstreamStatuses : FetchResolved(r, status)
    \/ \E errorText \in ErrorTexts : TextResolved(r, errorText)
    \/ TextRejected(r)
    \/ \E message \in JsonFailures : JsonFailed(r, message)
    \/ \E data \in UpstreamData(DefaultRows) : JsonResolved(r, data)

\* every awaited promise settles: the upstream call returns or fails
SpecFair == Spec /\ \A r \in Reqs : WF_vars(Settle(r) /\ UNCHANGED prev)

----------------------------------------------------------------------------
(* Vocabulary of the properties *)

\* the step sent a response
Responded == last'.pc = "done"

\* the step is the arrival of a request, answered at once or suspended at fetch
Arrived ==
    \/ Responded /\ req' = req
    \/ \E r \in Reqs : req[r].pc = "idle" /\ req'[r].pc = "fetch"

\* the run of the request that arrived in the step, as the step leaves it
Arrival ==
    IF Responded THEN last'
    ELSE req'[CHOOSE r \in Reqs : req[r].pc = "idle" /\ req'[r].pc = "fetch"]

\* a required parameter is absent or empty
AbsentOrEmpty(v) == v = Undefined \/ v = JStr(<<>>)

Incomplete(q) ==
    AbsentOrEmpty(q.make) \/ AbsentOrEmpty(q.model) \/ AbsentOrEmpty(q.year)
        \/ AbsentOrEmpty(q.zip)

\* the latest response sent before the step
Latest == IF last.pc = "done" THEN last ELSE prev

\* the object the upstream answered with has a listings array with elements
HasListings(data) ==
    data # NoData /\ "listings" \in DOMAIN data /\ Len(data.listings) > 0

\* the upstream answered with an object that has no listings, or none in it
HasNoListings(data) ==
    data # NoData /\ ("listings" \notin DOMAIN data \/ Len(data.listings) = 0)

\* body is payload with the cached flag added, set to true
IsCachedCopy(body, payload) ==
    /\ DOMAIN body = DOMAIN payload \cup {"cached"}
    /\ "cached" \notin DOMAIN payload
    /\ body.cached = TRUE
    /\ \A f \in DOMAIN payload : body[f] = payload[f]

\* the cache holds an entry for key k that is younger than 30 minutes at time t
Live(c, k, t) == k \in DOMAIN c /\ t - c[k].timestamp < 1800000

----------------------------------------------------------------------------
(* C1: a response carries a cache entry's payload (the cached flag) only   *)
(* if, at the cache read of that step, the entry was stored less than      *)
(* 1,800,000 ms ago; at exactly 1,800,000 ms it is not served.             *)

C1_ServedOnlyWhenFresh ==
    [][ (Responded /\ "cached" \in DOMAIN last'.resBody) =>
            /\ Live(cache, last'.cacheKey, now)
            /\ IsCachedCopy(last'.resBody, cache[last'.cacheKey].data) ]_vars

\* a hit on an entry stored 1,799,999 ms before
C1_Witness ==
    /\ last.outcome = "hit"
    /\ last.cacheKey \in DOMAIN cache
    /\ now - cache[last.cacheKey].timestamp = 1799999

----------------------------------------------------------------------------
(* C2: requests one after the other, credential configured.  A request     *)
(* with all required parameters that finds no entry under its key makes    *)
(* one upstream call; when it gets listings it answers 200 with the        *)
(* upstream object, without the cached flag, and leaves that object in     *)
(* the cache with the time of the store.  The same request, arriving next  *)
(* and less than 1,800,000 ms after the store, is answered with the same   *)
(* object plus cached: true, without an upstream call.                     *)

C2_FirstMisses ==
    (Arrived /\ ~Incomplete(Arrival.query) /\ apiKey
        /\ Arrival.cacheKey \notin DOMAIN cache)
    => (Arrival.pc = "fetch" /\ Arrival.calls = 1)

C2_FirstStores ==
    (Responded /\ HasListings(last'.data))
    => /\ last'.calls = 1
       /\ last'.resStatus = 200
       /\ last'.resBody = last'.data
       /\ "cached" \notin DOMAIN last'.resBody
       /\ last'.cacheKey \in DOMAIN cache'
       /\ cache'[last'.cacheKey] = [data |-> last'.data, timestamp |-> now]

C2_SecondHits ==
    (Arrived /\ Latest.pc = "done" /\ HasListings(Latest.data)
        /\ Arrival.query = Latest.query /\ now - Latest.storedAt < 1800000)
    => /\ Responded
       /\ last'.resStatus = 200
       /\ IsCachedCopy(last'.resBody, Latest.resBody)
       /\ last'.calls = 0

C2_TwoConsecutiveLookups ==
    [][C2_FirstMisses /\ C2_FirstStores /\ C2_SecondHits]_vars

\* a store, time passing, then the same request answered from the cache
C2_Witness ==
    /\ prev.outcome = "stored" /\ prev.calls = 1
    /\ last.outcome = "hit" /\ last.query = prev.query
    /\ IsCachedCopy(last.resBody, prev.resBody)
    /\ now - prev.storedAt = 1799999

----------------------------------------------------------------------------
(* C3: a request in which make, model, year or zip is absent or empty is   *)
(* answered 400 in the step of its arrival, having made no cache.get, no   *)
(* cache.delete, no cache.set and no fetch; the cache is as before.        *)

C3_ValidationBeforeAnyAccess ==
    [][ (Arrived /\ Incomplete(Arrival.query)) =>
            /\ Responded
            /\ last'.resStatus = 400
            /\ DOMAIN last'.resBody = {"error"}
            /\ last'.reads = 0 /\ last'.deletes = 0
            /\ last'.writes = 0 /\ last'.calls = 0
            /\ cache' = cache ]_vars

\* a request with an empty zip refused while the cache holds an entry
C3_Witness ==
    /\ last.pc = "done" /\ last.resStatus = 400
    /\ last.query.zip = JStr(<<>>)
    /\ cache # <<>>

----------------------------------------------------------------------------
(* C4: a request whose key has an entry stored 1,800,000 ms ago or more    *)
(* is not answered from it: the step of its arrival removes the entry      *)
(* and, the credential being configured, sends the upstream request.       *)

C4_StaleEntryIsAMiss ==
    [][ (Arrived /\ ~Incomplete(Arrival.query)
            /\ Arrival.cacheKey \in DOMAIN cache
            /\ now - cache[Arrival.cacheKey].timestamp >= 1800000) =>
            /\ Arrival.cacheKey \notin DOMAIN cache'
            /\ Arrival.outcome # "hit"
            /\ "cached" \notin DOMAIN Arrival.resBody
            /\ apiKey => (Arrival.pc = "fetch" /\ Arrival.calls = 1) ]_vars

\* the request that stored, then the same key looked up exactly TTL later
C4_Witness ==
    /\ prev.outcome = "stored"
    /\ req[1].pc = "fetch" /\ req[1].cacheKey = prev.cacheKey
    /\ now - prev.storedAt = 1800000
    /\ prev.cacheKey \notin DOMAIN cache

----------------------------------------------------------------------------
(* C5: a run whose upstream call succeeds with an object without listings  *)
(* (array missing or of length zero) leaves the cache as it was, and the   *)
(* same request arriving next makes a fresh upstream call.                 *)

C5_EmptyLeavesCache ==
    (Responded /\ HasNoListings(last'.data))
    => (cache' = cache /\ last'.writes = 0)

C5_NextCallsUpstream ==
    (Arrived /\ Latest.pc = "done" /\ HasNoListings(Latest.data)
        /\ Arrival.query = Latest.query)
    => (Arrival.pc = "fetch" /\ Arrival.calls = 1 /\ Arrival.outcome # "hit")

C5_EmptyNeverCached == [][C5_EmptyLeavesCache /\ C5_NextCallsUpstream]_vars

\* an upstream object without a listings array, then the same request again
C5_Witness ==
    /\ prev.outcome = "empty" /\ "listings" \notin DOMAIN prev.data
    /\ req[1].pc = "fetch" /\ req[1].query = prev.query
    /\ req[1].calls = 1

----------------------------------------------------------------------------
(* C6: a run of the handler sends at most one upstream request, whatever   *)
(* its outcome: none before it answers from the cache or refuses the       *)
(* request, one on every other path.                                       *)

C6_AtMostOneUpstreamCall ==
    /\ \A r \in Reqs : req[r].calls <= 1 /\ (InFlight(req[r]) => req[r].calls = 1)
    /\ last.calls <= 1
    /\ last.pc = "done" =>
         (last.calls = 0 <=> last.outcome \in {"validation", "hit", "config"})

\* a network failure answered without a second attempt, another run suspended
C6_Witness ==
    /\ last.outcome = "unexpected" /\ last.resBody.message = "fetch failed"
    /\ last.calls = 1
    /\ \E r \in Reqs : req[r].pc = "json"

----------------------------------------------------------------------------
(* C7: a request that omits radius and one that gives radius 50 have the   *)
(* same cache key, so that the second, arriving within TTL of the store    *)
(* of the first, is answered from the entry the first stored.              *)

\* the descriptor's radius: the number given, or 50
RadiusNumber(q) == IF q.radius = Undefined THEN 50 ELSE ToNum(q.radius)

SameDescriptor(q1, q2) ==
    /\ q1.make = q2.make /\ q1.model = q2.model
    /\ q1.year = q2.year /\ q1.zip = q2.zip
    /\ RadiusNumber(q1) = RadiusNumber(q2)

C7_SameDescriptorSameKey ==
    [][ (Arrived /\ ~Incomplete(Arrival.query)
            /\ Latest.pc = "done" /\ HasListings(Latest.data)
            /\ SameDescriptor(Arrival.query, Latest.query)
            /\ now - Latest.storedAt < 1800000) =>
            /\ Arrival.cacheKey = Latest.cacheKey
            /\ Responded
            /\ IsCachedCopy(last'.resBody, Latest.resBody) ]_vars

----------------------------------------------------------------------------
(* C8: without the credential no upstream request is ever sent and nothing *)
(* enters the cache; a request with all required parameters that is not    *)
(* answered from the cache is answered 500 with the configuration error,   *)
(* and the requests after it are answered too.                             *)

C8_NoCredential ==
    ~apiKey =>
        /\ cache = <<>>
        /\ \A r \in Reqs : req[r].pc = "idle" /\ req[r].calls = 0
        /\ (last.pc = "done" /\ ~Incomplete(last.query)
                /\ "cached" \notin DOMAIN last.resBody) =>
             /\ last.resStatus = 500
             /\ last.resBody.error = "Marketcheck API key not configured"
             /\ last.calls = 0 /\ last.writes = 0

\* two requests in a row answered with the configuration error
C8_Witness ==
    /\ ~apiKey
    /\ prev.pc = "done" /\ prev.resStatus = 500 /\ ~Incomplete(prev.query)
    /\ last.pc = "done" /\ last.resStatus = 500 /\ ~Incomplete(last.query)

----------------------------------------------------------------------------
(* C9: a run that got a status outside 200..299 from the upstream and the  *)
(* text of its body answers with that status, repeats it in the status     *)
(* field and gives the text as details; the step changes no cache entry.   *)

C9_UpstreamErrorVerbatim ==
    [][ (Responded /\ last'.upstream # 0
            /\ ~(last'.upstream >= 200 /\ last'.upstream <= 299)
            /\ last'.outcome # "unexpected") =>
            /\ last'.resStatus = last'.upstream
            /\ DOMAIN last'.resBody = {"error", "status", "details"}
            /\ last'.resBody.status = last'.upstream
            /\ last'.resBody.details = last'.errorText
            /\ last'.errorText \in ErrorTexts
            /\ last'.writes = 0
            /\ cache' = cache ]_vars

\* a 404 passed on while the cache holds an entry
C9_Witness ==
    /\ last.outcome = "upstream" /\ last.resStatus = 404
    /\ last.resBody.details = "Not Found"
    /\ cache # <<>>

----------------------------------------------------------------------------
(* C10: every store puts the storing run's own upstream object and the     *)
(* time of the store under the run's key, whether or not another run has   *)
(* stored under that key since this one missed, and touches no other key;  *)
(* the run answers 200 with its own object.  The cache is a map: one entry *)
(* per key.                                                                *)

C10_LastWriteWins ==
    [][ (Responded /\ HasListings(last'.data)) =>
            /\ last'.resStatus = 200
            /\ last'.resBody = last'.data
            /\ DOMAIN cache' = DOMAIN cache \cup {last'.cacheKey}
            /\ cache'[last'.cacheKey] = [data |-> last'.data, timestamp |-> now]
            /\ \A k \in DOMAIN cache \ {last'.cacheKey} : cache'[k] = cache[k] ]_vars

\* a run stores over the entry another run stored after both had missed
C10_Witness ==
    /\ last.outcome = "stored" /\ last.replaced
    /\ cache[last.cacheKey].data = last.data
    /\ cache[last.cacheKey].timestamp = now

----------------------------------------------------------------------------
(* C11: provided every awaited upstream promise settles, no run waits for  *)
(* the upstream for ever: each slot is again and again free, and a run     *)
(* leaves its slot only by responding; a step sends the response of one    *)
(* run only.  Every response is of exactly one of five kinds: success,     *)
(* ValidationError (400), ConfigurationError (500), UpstreamError (the     *)
(* upstream's status) or UnexpectedError (500).  A run whose fetch         *)
(* rejects, or whose body cannot be read as an object, answers 500         *)
(* "Internal server error" with the failure's message, the cache is as     *)
(* before, and the other runs are left as they were.                       *)

IsSuccess(s) == s.resStatus = 200 /\ "error" \notin DOMAIN s.resBody

IsValidationError(s) ==
    /\ s.resStatus = 400 /\ "error" \in DOMAIN s.resBody
    /\ s.resBody.error = "Missing required parameters: make, model, year, zip"

IsConfigurationError(s) ==
    /\ s.resStatus = 500 /\ "error" \in DOMAIN s.resBody
    /\ s.resBody.error = "Marketcheck API key not configured"

IsUpstreamError(s) ==
    /\ s.resStatus = s.upstream /\ "error" \in DOMAIN s.resBody
    /\ s.resBody.error = "Marketcheck API request failed"

IsUnexpectedError(s) ==
    /\ s.resStatus = 500 /\ DOMAIN s.resBody = {"error", "message"}
    /\ s.resBody.error = "Internal server error"

KindsOf(s) ==
    {k \in {"success", "validation", "config", "upstream", "unexpected"} :
        \/ k = "success" /\ IsSuccess(s)
        \/ k = "validation" /\ IsValidationError(s)
        \/ k = "config" /\ IsConfigurationError(s)
        \/ k = "upstream" /\ IsUpstreamError(s)
        \/ k = "unexpected" /\ IsUnexpectedError(s)}

\* the runs that were waiting for the upstream and are over after the step
Ended == {r \in Reqs : InFlight(req[r]) /\ req'[r].pc = "idle"}

\* run r ends in the step without an object read from the upstream's body
\* and without an upstream error status
Failed(r) ==
    /\ r \in Ended
    /\ req[r].pc \in {"fetch", "json"}
    /\ last'.data = NoData

C11_OneResponsePerStep ==
    /\ Cardinality(Ended) <= 1
    /\ \A r \in Ended : Responded /\ last'.query = req[r].query
                            /\ last'.calls = req[r].calls
    /\ Responded => (Ended # {} \/ Arrived)
    /\ Responded => Cardinality(KindsOf(last')) = 1

C11_FailureIsolated ==
    \A r \in Reqs : Failed(r) =>
        /\ IsUnexpectedError(last')
        /\ last'.resBody.message \in JsonFailures \cup {"fetch failed"}
        /\ last'.writes = 0
        /\ cache' = cache
        /\ \A o \in Reqs \ {r} : req'[o] = req[o]

C11_EveryLookupAnswered ==
    /\ [][C11_OneResponsePerStep /\ C11_FailureIsolated]_vars
    /\ \A r \in Reqs : []<>(req[r].pc = "idle")

\* an unparsable body answered 500 while another run waits for its fetch
\* and the cache holds an entry
C11_Witness ==
    /\ last.pc = "done" /\ IsUnexpectedError(last)
    /\ last.resBody.message = "Unexpected token < in JSON at position 0"
    /\ \E r \in Reqs : req[r].pc = "fetch"
    /\ cache # <<>>

----------------------------------------------------------------------------
(* C12: the key a run derives belongs to its descriptor alone: every       *)
(* request of KeyQueries that has the same key has the same make, model,   *)
(* year, zip and radius.  So a run that is answered from the cache is      *)
(* answered from an entry stored under its own descriptor, and a run for   *)
(* one descriptor misses while the cache holds the entry of another.       *)

\* the requests that are given the key k
KeyOwners(k) == {q \in KeyQueries : cacheKeys[Destructure(q)] = k}

KeyIsOwn(s) == \A q \in KeyOwners(s.cacheKey) : SameDescriptor(q, s.query)

C12_KeysInjective ==
    /\ \A r \in Reqs : req[r].pc # "idle" => KeyIsOwn(req[r])
    /\ (last.pc = "done" /\ last.reads = 1) => KeyIsOwn(last)
    /\ last.outcome = "hit" =>
         /\ last.cacheKey \in DOMAIN cache
         /\ \A q \in KeyQueries :
              ~SameDescriptor(q, last.query) =>
                  cacheKeys[Destructure(q)] # last.cacheKey

\* the make that holds the separator is stored, and the request whose
\* model holds it misses and waits for the upstream
C12_Witness ==
    /\ DOMAIN cache = {cacheKeys[Destructure(KeyTwinMake)]}
    /\ req[1].pc = "fetch" /\ req[1].query = KeyTwinModel
    /\ req[1].deletes = 1

----------------------------------------------------------------------------
(* C13: a run whose upstream call succeeds with an object that has no      *)
(* listings array, or an empty one, answers 200 with an object of three    *)
(* fields: listings, the empty array; num_found, 0; and message, "No       *)
(* listings found for this vehicle".  The object has no field count, and   *)
(* nothing else of the upstream's object is passed on.                     *)

C13_EmptyResultPayload ==
    [][ (Responded /\ HasNoListings(last'.data)) =>
            /\ last'.resStatus = 200
            /\ DOMAIN last'.resBody = {"listings", "num_found", "message"}
            /\ last'.resBody.listings = <<>>
            /\ last'.resBody.num_found = 0
            /\ last'.resBody.message = "No listings found for this vehicle" ]_vars

\* C13 as the claim words it: the payload has listings, the empty array,
\* and a field count that is 0
C13_CountIsZero ==
    [][ (Responded /\ HasNoListings(last'.data)) =>
            /\ "listings" \in DOMAIN last'.resBody
            /\ last'.resBody.listings = <<>>
            /\ "count" \in DOMAIN last'.resBody
            /\ last'.resBody.count = 0 ]_vars

\* the upstream object has no listings array; the response has an empty one
C13_Witness ==
    /\ last.pc = "done" /\ last.resStatus = 200
    /\ last.data # NoData /\ "listings" \notin DOMAIN last.data
    /\ last.resBody.listings = <<>> /\ last.resBody.num_found = 0

----------------------------------------------------------------------------
(* C14: a request in which one or more of make, model, year, zip is absent *)
(* or empty is answered 400 with one and the same error text, which lists  *)
(* all four required parameters whichever of them are missing; the text    *)
(* names exactly the missing ones only when all four are missing.          *)

\* the required parameters that are absent or empty in q
MissingFields(q) == {f \in Required : AbsentOrEmpty(q[f])}

\* the required parameters an error text names
NamesIn(text) ==
    IF text = "Missing required parameters: make, model, year, zip"
    THEN {"make", "model", "year", "zip"} ELSE {}

C14_ValidationNamesAllRequired ==
    [][ (Arrived /\ MissingFields(Arrival.query) # {}) =>
            /\ Responded
            /\ last'.resStatus = 400
            /\ DOMAIN last'.resBody = {"error"}
            /\ NamesIn(last'.resBody.error) = Required
            /\ (NamesIn(last'.resBody.error) = MissingFields(last'.query)
                    <=> MissingFields(last'.query) = Required) ]_vars

\* C14 as the claim words it: the error names exactly the missing fields
C14_NamesExactlyMissing ==
    [][ (Arrived /\ MissingFields(Arrival.query) # {}) =>
            /\ Responded
            /\ last'.resStatus = 400
            /\ NamesIn(last'.resBody.error) = MissingFields(last'.query) ]_vars

\* a request without zip alone is told that make, model, year, zip are missing
C14_Witness ==
    /\ last.pc = "done" /\ last.resStatus = 400
    /\ MissingFields(last.query) = {"zip"}
    /\ NamesIn(last.resBody.error) = Required

----------------------------------------------------------------------------
(* C15: a step that answers from the cache leaves the Map as it was: the   *)
(* run makes one cache.get, no cache.delete, no cache.set and no fetch.    *)
(* An entry's data and timestamp change only when a run that got listings  *)
(* from the upstream stores under its key, so a request that arrives       *)
(* 1,800,000 ms or more after the store is not answered from the entry,    *)
(* even when the response before it was a hit on the same key.             *)

C15_HitLeavesMap ==
    (Responded /\ "cached" \in DOMAIN last'.resBody)
    => /\ cache' = cache
       /\ last'.reads = 1 /\ last'.deletes = 0
       /\ last'.writes = 0 /\ last'.calls = 0

C15_OnlyStoresChangeEntries ==
    \A k \in DOMAIN cache \cap DOMAIN cache' :
        cache'[k] # cache[k] =>
            /\ Responded /\ HasListings(last'.data)
            /\ last'.cacheKey = k /\ last'.calls = 1

C15_NoSlidingExpiration ==
    (Arrived /\ Latest.pc = "done" /\ "cached" \in DOMAIN Latest.resBody
        /\ Arrival.cacheKey = Latest.cacheKey
        /\ Arrival.cacheKey \in DOMAIN cache
        /\ now - cache[Arrival.cacheKey].timestamp >= 1800000)
    => /\ "cached" \notin DOMAIN Arrival.resBody
       /\ Arrival.cacheKey \notin DOMAIN cache'

C15_HitIsPureRead ==
    [][C15_HitLeavesMap /\ C15_OnlyStoresChangeEntries
        /\ C15_NoSlidingExpiration]_vars

\* the response before was a hit; the same key, 1,800,000 ms after the
\* store at time 0, misses
C15_Witness ==
    /\ prev.pc = "done" /\ prev.resStatus = 200 /\ "cached" \in DOMAIN prev.resBody
    /\ req[1].pc = "fetch" /\ req[1].cacheKey = prev.cacheKey
    /\ req[1].deletes = 1
    /\ now = 1800000 /\ ticks = 2

----------------------------------------------------------------------------
(* C16: every entry of the cache holds an upstream object whose listings   *)
(* array is present and not empty, and a timestamp that is not later than  *)
(* the current time.  A key enters the Map, or its entry changes, only in  *)
(* the step in which a run that got status 200..299 and listings from the  *)
(* upstream answers 200 with them.                                         *)

EntryWellFormed(e) ==
    /\ HasListings(e.data)
    /\ "cached" \notin DOMAIN e.data
    /\ e.timestamp <= now

\* the keys that are new in the Map, or have another entry, after the step
Inserted ==
    {k \in DOMAIN cache' : k \notin DOMAIN cache \/ cache'[k] # cache[k]}

C16_OnlyResultsInserted ==
    \A k \in Inserted :
        /\ Responded
        /\ last'.cacheKey = k
        /\ Ok(last'.upstream)
        /\ HasListings(last'.data)
        /\ cache'[k].data = last'.data
        /\ last'.resStatus = 200 /\ last'.resBody = last'.data
        /\ last'.writes = 1

C16_CacheHoldsResultsOnly ==
    /\ [](\A k \in DOMAIN cache : EntryWellFormed(cache[k]))
    /\ [][C16_OnlyResultsInserted]_vars

\* an upstream answer without listings has just been passed on, and the
\* Map holds two entries, one of them stored earlier than now
C16_Witness ==
    /\ last.outcome = "empty"
    /\ Cardinality(DOMAIN cache) = 2
    /\ \E k \in DOMAIN cache : cache[k].timestamp < now

----------------------------------------------------------------------------
(* C18: rows is not in the cache key.  A request that has the make, model, *)
(* year, zip and radius of the request answered before it, and another     *)
(* rows, arriving less than 1,800,000 ms after that request stored the     *)
(* upstream's object, has the same key and is answered 200 with that       *)
(* object plus cached: true, without an upstream call: it gets the         *)
(* listings the upstream gave for the rows of the request that stored.     *)

\* q1 and q2 are the same request but for rows
DifferInRowsOnly(q1, q2) ==
    /\ q1.make = q2.make /\ q1.model = q2.model
    /\ q1.year = q2.year /\ q1.zip = q2.zip
    /\ q1.radius = q2.radius
    /\ q1.rows # q2.rows

C18_RowsNotInKey ==
    [][ (Arrived /\ ~Incomplete(Arrival.query)
            /\ Latest.pc = "done" /\ HasListings(Latest.data)
            /\ DifferInRowsOnly(Arrival.query, Latest.query)
            /\ now - Latest.storedAt < 1800000) =>
            /\ Arrival.cacheKey = Latest.cacheKey
            /\ Responded
            /\ last'.resStatus = 200
            /\ IsCachedCopy(last'.resBody, Latest.data)
            /\ last'.calls = 0
            /\ cache' = cache ]_vars

\* a request for the default 10 rows stored two listings; the request for
\* 1 row that follows is answered with the two
C18_Witness ==
    /\ prev.outcome = "stored" /\ prev.query.rows = Undefined
    /\ Len(prev.data.listings) = 2
    /\ last.outcome = "hit" /\ last.query.rows = JStr(str1)
    /\ DifferInRowsOnly(last.query, prev.query)
    /\ last.resBody.listings = prev.data.listings
    /\ Len(last.resBody.listings) > ToNum(last.query.rows)
    /\ last.calls = 0

====
